---- MODULE Spec2Model ----
(***************************************************************************)
(* Model of the metadata key-value layer:                                  *)
(*   - the key escaper and the String key of                               *)
(*     src/meta/kvapi/src/kvapi/key.rs (escape / unescape over byte        *)
(*     strings, the identity codec), specification SpecEsc;                *)
(*   - a key decoder built from the check_segment helpers of key.rs,       *)
(*     specification SpecKey;                                              *)
(*   - the replicated node of                                              *)
(*     src/meta/service/src/meta_service/meta_node_kv_api_impl.rs          *)
(*     (writes through the raft log, reads from the local state machine),  *)
(*     specifications Spec (concurrent callers, two nodes), SpecSeq        *)
(*     (one caller, the leader only, longer logs), SpecFault (a log layer  *)
(*     that refuses submissions or mistags applied states) and SpecLive    *)
(*     (callers that abandon their calls, a fair log);                     *)
(*   - the chunk compactor of                                              *)
(*     src/query/pipeline/transforms/src/processors/transforms/            *)
(*     transform_chunk_compact_no_split.rs, specification SpecCompact;     *)
(*   - the iterator over serialized group-by keys of                       *)
(*     src/query/service/src/pipelines/processors/transforms/group_by/     *)
(*     aggregator_keys_iter.rs, specification SpecIter.                    *)
(* A byte is a number in 0..255, a string is the sequence of its UTF-8     *)
(* bytes.                                                                  *)
(***************************************************************************)
EXTENDS Integers, Sequences, FiniteSets, TLC

VARIABLES
    key,        \* escaper: the &str handed to escape / unescape
    epc,        \* escaper and String key: which call was made last
    escaped,    \* escaper: what escape(key) returned
    unescaped,  \* escaper: what unescape returned
    log,        \* node: the committed raft log, a sequence of LogEntry
    applied,    \* node: per node, how many log entries its state machine applied
    sm,         \* node: per node, the state machine: key -> None or SeqV
    call,       \* node: per caller, the write call in flight
    ret,        \* node: what the operation that just returned handed back
    skey,       \* String key: what to_string_key / from_str_key returned
    segs,       \* key decoder: the segments of the encoded key, s.split('/')
    decoded,    \* key decoder: what the decoder returned
    chunks,             \* compactor: the caller's buffer, a Vec<Chunk>
    accumulated_rows,   \* compactor: self.accumulated_rows
    accumulated_bytes,  \* compactor: self.accumulated_bytes
    aborting,           \* compactor: self.aborting
    cres,       \* compactor: what the last compact_* call returned
    rows,       \* compactor: rows received and rows emitted so far
    values,     \* keys iterator: self.data, the column's values()
    offsets,    \* keys iterator: self.offsets, where each key starts and ends
    pos,        \* keys iterator: self.pos
    yielded     \* keys iterator: what the calls of next returned, in order

evars == <<key, epc, escaped, unescaped, skey>>
kvvars == <<log, applied, sm, call, ret>>
dvars == <<segs, decoded>>
cvars == <<chunks, accumulated_rows, accumulated_bytes, aborting, cres, rows>>
ivars == <<values, offsets, pos, yielded>>
nonesc == <<kvvars, dvars, cvars, ivars>>
nonkv == <<evars, dvars, cvars, ivars>>
vars == <<evars, kvvars, dvars, cvars, ivars>>

None == [kind |-> "None"]

\* the values of a component's variables in a specification that leaves it out
EscOff ==
    /\ key = << >>
    /\ epc = "off"
    /\ escaped = None
    /\ unescaped = None
    /\ skey = None

KVOff ==
    /\ log = << >>
    /\ applied = << >>
    /\ sm = << >>
    /\ call = << >>
    /\ ret = None

KeyOff ==
    /\ segs = << >>
    /\ decoded = None

CompactOff ==
    /\ chunks = << >>
    /\ accumulated_rows = 0
    /\ accumulated_bytes = 0
    /\ aborting = FALSE
    /\ cres = None
    /\ rows = None

IterOff ==
    /\ values = << >>
    /\ offsets = << >>
    /\ pos = 0
    /\ yielded = << >>

(***************************************************************************)
(* Bounds and input alphabet of the escaper.                               *)
(***************************************************************************)
MaxLen == 3

\* '%', '/', '2', '5', 'f' : each a one-character string
Alphabet == {<<37>>, <<47>>, <<50>>, <<53>>, <<102>>}

RECURSIVE StringsUpTo(_)
StringsUpTo(n) ==
    IF n = 0 THEN {<< >>}
    ELSE LET shorter == StringsUpTo(n - 1)
         IN shorter \cup {s \o c : s \in shorter, c \in Alphabet}

\* "my db!", "data_bend!!", "data_bend%21%21", "e-acute _ Z 9", "%c3%a9",
\* "%2F", "a" DEL NUL, the euro sign, U+1F600
Scenarios ==
    { <<109, 121, 32, 100, 98, 33>>,
      <<100, 97, 116, 97, 95, 98, 101, 110, 100, 33, 33>>,
      <<100, 97, 116, 97, 95, 98, 101, 110, 100, 37, 50, 49, 37, 50, 49>>,
      <<195, 169, 95, 90, 57>>,
      <<37, 99, 51, 37, 97, 57>>,
      <<37, 50, 70>>,
      <<97, 127, 0>>,
      <<226, 130, 172>>,
      <<240, 159, 152, 128>> }

Inputs == StringsUpTo(MaxLen) \cup Scenarios

(***************************************************************************)
(* String::from_utf8: the validity check of the standard library.          *)
(***************************************************************************)
IsCont(b) == b >= 128 /\ b <= 191

RECURSIVE ValidUtf8From(_, _)
ValidUtf8From(bytes, i) ==
    LET n == Len(bytes)
        b0 == bytes[i]
        at(j) == IF i + j <= n THEN bytes[i + j] ELSE -1
    IN  IF i > n THEN TRUE
        ELSE IF b0 <= 127 THEN ValidUtf8From(bytes, i + 1)
        ELSE IF b0 >= 194 /\ b0 <= 223
            THEN IsCont(at(1)) /\ ValidUtf8From(bytes, i + 2)
        ELSE IF b0 >= 224 /\ b0 <= 239
            THEN /\ IsCont(at(1)) /\ IsCont(at(2))
                 /\ (b0 = 224 => at(1) >= 160)
                 /\ (b0 = 237 => at(1) <= 159)
                 /\ ValidUtf8From(bytes, i + 3)
        ELSE IF b0 >= 240 /\ b0 <= 244
            THEN /\ IsCont(at(1)) /\ IsCont(at(2)) /\ IsCont(at(3))
                 /\ (b0 = 240 => at(1) >= 144)
                 /\ (b0 = 244 => at(1) <= 143)
                 /\ ValidUtf8From(bytes, i + 4)
        ELSE FALSE

from_utf8(bytes) ==
    IF ValidUtf8From(bytes, 1)
    THEN [kind |-> "Ok", val |-> bytes]
    ELSE [kind |-> "Err", val |-> << >>]

(***************************************************************************)
(* escape                                                                  *)
(***************************************************************************)
\* the value of a match arm that ends in unreachable!()
Unreachable == -1

Panic == [kind |-> "Panic", val |-> << >>]

hexUpper(num) ==
    IF num >= 0 /\ num <= 9 THEN 48 + num
    ELSE IF num >= 10 /\ num <= 15 THEN 65 + (num - 10)
    ELSE Unreachable

hex(num) ==
    IF num >= 0 /\ num <= 9 THEN 48 + num
    ELSE IF num >= 10 /\ num <= 15 THEN 97 + (num - 10)
    ELSE Unreachable

\* the arms  b'0'..=b'9'  and  b'_' | b'a'..=b'z' | b'A'..=b'Z'
IsPlain(char) ==
    \/ char >= 48 /\ char <= 57
    \/ char = 95
    \/ char >= 97 /\ char <= 122
    \/ char >= 65 /\ char <= 90

escape_byte_percent_plain(char) ==
    IF IsPlain(char) \/ char = 37 THEN <<char>>
    ELSE <<37, hex(char \div 16), hex(char % 16)>>

escape_byte_low_first(char) ==
    IF IsPlain(char) THEN <<char>>
    ELSE <<37, hex(char % 16), hex(char \div 16)>>

\* one iteration of  for char in key.as_bytes()
escape_byte(char) ==
    IF IsPlain(char) THEN <<char>>
    ELSE <<37, hex(char \div 16), hex(char % 16)>>

RECURSIVE escape_loop(_, _, _)
escape_loop(bytes, i, new_key) ==
    IF i > Len(bytes) THEN new_key
    ELSE escape_loop(bytes, i + 1, new_key \o escape_byte(bytes[i]))

escape(k) ==
    LET new_key == escape_loop(k, 1, << >>)
    IN  IF \E i \in 1..Len(new_key) : new_key[i] = Unreachable THEN Panic
        ELSE IF from_utf8(new_key).kind = "Ok"
            THEN [kind |-> "Ok", val |-> new_key]
        ELSE Panic      \* .unwrap() of an Err

(***************************************************************************)
(* unescape                                                                *)
(***************************************************************************)
unhex(num) ==
    IF num >= 48 /\ num <= 57 THEN num - 48
    ELSE IF num >= 97 /\ num <= 102 THEN num - 97 + 10
    ELSE Unreachable

\* the while loop; index is 1-based here, 0-based in the source
RECURSIVE unescape_loop(_, _, _)
unescape_loop(bytes, index, new_key) ==
    IF index > Len(bytes) THEN [kind |-> "Ok", val |-> new_key]
    ELSE IF bytes[index] = 37
        THEN IF index + 1 > Len(bytes) THEN Panic           \* bytes[index + 1]
             ELSE IF unhex(bytes[index + 1]) = Unreachable THEN Panic
             ELSE IF index + 2 > Len(bytes) THEN Panic      \* bytes[index + 2]
             ELSE IF unhex(bytes[index + 2]) = Unreachable THEN Panic
             ELSE unescape_loop(bytes, index + 3,
                     Append(new_key,
                            (unhex(bytes[index + 1]) * 16
                               + unhex(bytes[index + 2])) % 256))
    ELSE unescape_loop(bytes, index + 1, Append(new_key, bytes[index]))

unescape(k) ==
    LET r == unescape_loop(k, 1, << >>)
    IN  IF r.kind = "Panic" THEN Panic ELSE from_utf8(r.val)

(***************************************************************************)
(* The escaper as a state machine: one call of escape, then unescape of    *)
(* its output; or one call of unescape on the raw input.                   *)
(***************************************************************************)
EscInit ==
    /\ key \in Inputs
    /\ epc = "start"
    /\ escaped = None
    /\ unescaped = None
    /\ skey = None
    /\ KVOff
    /\ KeyOff
    /\ CompactOff
    /\ IterOff

Escape ==
    /\ epc = "start"
    /\ escaped' = escape(key)
    /\ epc' = "escaped"
    /\ UNCHANGED <<key, unescaped, skey, nonesc>>

UnescapeEscaped ==
    /\ epc = "escaped"
    /\ escaped.kind = "Ok"
    /\ unescaped' = unescape(escaped.val)
    /\ epc' = "roundtrip"
    /\ UNCHANGED <<key, escaped, skey, nonesc>>

Unescape ==
    /\ epc = "start"
    /\ unescaped' = unescape(key)
    /\ epc' = "unescaped"
    /\ UNCHANGED <<key, escaped, skey, nonesc>>

\* ---- impl kvapi::Key for String -----------------------------------------
StringPREFIX == << >>

string_to_string_key_escaped(k) == [kind |-> "Str", val |-> escape(k).val]

\* self.clone()
string_to_string_key(k) == [kind |-> "Str", val |-> k]

\* Ok(s.to_string())
string_from_str_key(s) == [kind |-> "Ok", val |-> s]

ToStringKey ==
    /\ epc = "start"
    /\ skey' = string_to_string_key(key)
    /\ epc' = "encoded"
    /\ UNCHANGED <<key, escaped, unescaped, nonesc>>

FromEncoded ==
    /\ epc = "encoded"
    /\ skey' = string_from_str_key(skey.val)
    /\ epc' = "key_roundtrip"
    /\ UNCHANGED <<key, escaped, unescaped, nonesc>>

FromStrKey ==
    /\ epc = "start"
    /\ skey' = string_from_str_key(key)
    /\ epc' = "decoded"
    /\ UNCHANGED <<key, escaped, unescaped, nonesc>>

ToDecoded ==
    /\ epc = "decoded"
    /\ skey.kind = "Ok"
    /\ skey' = string_to_string_key(skey.val)
    /\ epc' = "str_roundtrip"
    /\ UNCHANGED <<key, escaped, unescaped, nonesc>>

EscNext ==
    \/ Escape
    \/ UnescapeEscaped
    \/ Unescape
    \/ ToStringKey
    \/ FromEncoded
    \/ FromStrKey
    \/ ToDecoded

SpecEsc == EscInit /\ [][EscNext]_vars

(***************************************************************************)
(* Properties of the escaper                                               *)
(***************************************************************************)

\* C1: round trip: unescape(escape(s)) returns Ok(s) for every input string s.
RoundTrip ==
    epc = "roundtrip" => unescaped = [kind |-> "Ok", val |-> key]

\* a string with multi-byte and escaped characters has made the round trip
RoundTripWitness ==
    /\ epc = "roundtrip"
    /\ key = <<195, 169, 95, 90, 57>>
    /\ escaped.val = <<37, 99, 51, 37, 97, 57, 95, 90, 57>>
    /\ unescaped = [kind |-> "Ok", val |-> key]

\* C2: injectivity: no other input string has the same escaped form.
Injective ==
    epc = "escaped" =>
        \A s \in Inputs : s # key => escape(s) # escaped

\* "%" is escaped to "%25", which is itself an input and is escaped to "%2525"
InjectiveWitness ==
    /\ epc = "escaped"
    /\ key = <<37>>
    /\ escaped.val = <<37, 50, 53>>
    /\ <<37, 50, 53>> \in Inputs
    /\ escape(<<37, 50, 53>>).val = <<37, 50, 53, 50, 53>>

\* "0123456789abcdef"
LowerHexDigits ==
    <<48, 49, 50, 51, 52, 53, 54, 55, 56, 57, 97, 98, 99, 100, 101, 102>>

ExpectedByte(b) ==
    IF \/ b \in 48..57
       \/ b \in 65..90
       \/ b \in 97..122
       \/ b = 95
    THEN <<b>>
    ELSE <<37, LowerHexDigits[(b \div 16) + 1], LowerHexDigits[(b % 16) + 1]>>

RECURSIVE ExpectedEscape(_)
ExpectedEscape(s) ==
    IF s = << >> THEN << >> ELSE ExpectedByte(Head(s)) \o ExpectedEscape(Tail(s))

\* the bytes of [0-9A-Za-z_%]
EscapedAlphabet == (48..57) \cup (65..90) \cup (97..122) \cup {95, 37}

\* C3: escape never fails and maps each byte on its own: digits, letters and
\* '_' are copied, any other byte b becomes '%', hex(b / 16), hex(b % 16) in
\* lowercase; the output stays within [0-9A-Za-z_%], is at most three times
\* as long as the input, and escape("my db!") = "my%20db%21".
EscapeShape ==
    epc = "escaped" =>
        /\ escaped.kind = "Ok"
        /\ escaped.val = ExpectedEscape(key)
        /\ \A i \in 1..Len(escaped.val) : escaped.val[i] \in EscapedAlphabet
        /\ Len(escaped.val) <= 3 * Len(key)
        /\ (key = <<109, 121, 32, 100, 98, 33>> =>
                escaped.val = <<109, 121, 37, 50, 48, 100, 98, 37, 50, 49>>)

\* escape("my db!") has returned "my%20db%21"
EscapeShapeWitness ==
    /\ epc = "escaped"
    /\ key = <<109, 121, 32, 100, 98, 33>>
    /\ escaped = [kind |-> "Ok",
                  val |-> <<109, 121, 37, 50, 48, 100, 98, 37, 50, 49>>]

IsHexDigit(b) == b \in 48..57 \/ b \in 97..102 \/ b \in 65..70

\* some '%' of s is not followed by two hex digits
MalformedPercent(s) ==
    \E i \in 1..Len(s) :
        /\ s[i] = 37
        /\ \/ i + 2 > Len(s)
           \/ ~IsHexDigit(s[i + 1])
           \/ ~IsHexDigit(s[i + 2])

\* C4: unescape never aborts: a '%' that is not followed by two hex digits,
\* or reconstructed bytes that are not valid text, give a decode error.
UnescapeNeverPanics ==
    epc = "unescaped" =>
        /\ unescaped.kind \in {"Ok", "Err"}
        /\ (MalformedPercent(key) => unescaped.kind = "Err")

(***************************************************************************)
(* The replicated node: impl kvapi::KVApi for MetaNode                     *)
(***************************************************************************)
\* log entries a run of Spec submits, and a run of the sequential SpecSeq
MaxLog == 3
MaxSeqLog == 5
MaxFaultLog == 3
MaxLiveLog == 2

Nodes == {"n1", "n2"}
Leader == "n1"
Callers == {"c1", "c2"}

\* flat string keys "k1" and "k2", as sequences of characters
K1 == <<"k", "1">>
K2 == <<"k", "2">>
Keys == {K1, K2}

\* ---- request and reply types (common_meta_types) ------------------------
Some(v) == [kind |-> "Some", v |-> v]

SeqAny == [kind |-> "Any", n |-> 0]
SeqAbsent == [kind |-> "Absent", n |-> 0]
SeqPresent == [kind |-> "Present", n |-> 0]
SeqExact(n) == [kind |-> "Exact", n |-> n]

Update(data) == [kind |-> "Update", data |-> data]
Delete == [kind |-> "Delete", data |-> ""]

UpsertKVReq(k, seq, value, value_meta) ==
    [key |-> k, seq |-> seq, value |-> value, value_meta |-> value_meta]

SeqV(seq, meta, data) == [kind |-> "Some", seq |-> seq, meta |-> meta, data |-> data]

TxnCondition(k, expected) == [key |-> k, expected |-> expected]
TxnPut(k, data) == [kind |-> "put", key |-> k, data |-> data]
TxnDelete(k) == [kind |-> "delete", key |-> k, data |-> ""]
TxnGet(k) == [kind |-> "get", key |-> k, data |-> ""]

TxnRequest(condition, if_then, else_then) ==
    [condition |-> condition, if_then |-> if_then, else_then |-> else_then]

\* ---- the requests callers make ------------------------------------------
UpsertReqs ==
    { UpsertKVReq(K1, SeqAbsent, Update("v1"), None),
      UpsertKVReq(K1, SeqPresent, Update("v2"), None),
      UpsertKVReq(K1, SeqExact(1), Update("v2"), None),
      UpsertKVReq(K1, SeqExact(1), Update("v3"), None),
      UpsertKVReq(K1, SeqAny, Delete, None) }

\* the requests of the concurrent runs
ConcurrentUpsertReqs ==
    { UpsertKVReq(K1, SeqAbsent, Update("v1"), Some("ttl")),
      UpsertKVReq(K1, SeqExact(1), Update("v2"), None) }

Txn1 ==
    TxnRequest(<<TxnCondition(K1, SeqAbsent)>>,
               <<TxnPut(K1, "t1"), TxnPut(K2, "t1")>>,
               <<TxnGet(K1)>>)

TxnReqs == {Txn1}

MGetReqs == {<<K2, K2, K1>>}

Prefixes == {<<"k">>, <<"k", "1">>}

\* ---- the state machine: applying one committed entry --------------------
EmptyStore == [k \in Keys |-> None]

MatchSeq(cond, cur) ==
    CASE cond.kind = "Any" -> TRUE
      [] cond.kind = "Absent" -> cur = None
      [] cond.kind = "Present" -> cur # None
      [] cond.kind = "Exact" -> cur # None /\ cur.seq = cond.n

NextSeq(cur) == IF cur = None THEN 1 ELSE cur.seq + 1

\* the store after, and (prev, result), of one conditional write
ApplyUpsert(store, cmd) ==
    LET prev == store[cmd.key]
    IN  IF ~MatchSeq(cmd.seq, prev)
        THEN [store |-> store, prev |-> prev, result |-> prev]
        ELSE IF cmd.value.kind = "Delete"
        THEN [store |-> [store EXCEPT ![cmd.key] = None],
              prev |-> prev, result |-> None]
        ELSE LET new == SeqV(NextSeq(prev), cmd.value_meta, cmd.value.data)
             IN  [store |-> [store EXCEPT ![cmd.key] = new],
                  prev |-> prev, result |-> new]

TxnOpAsUpsert(op) ==
    [key |-> op.key, seq |-> SeqAny,
     value |-> IF op.kind = "put" THEN Update(op.data) ELSE Delete,
     value_meta |-> None]

\* the operations of one branch, in order, on one store
RECURSIVE ApplyTxnOps(_, _, _)
ApplyTxnOps(store, ops, responses) ==
    IF ops = << >> THEN [store |-> store, responses |-> responses]
    ELSE LET op == Head(ops)
         IN  IF op.kind = "get"
             THEN ApplyTxnOps(store, Tail(ops),
                      Append(responses,
                             [kind |-> "get", key |-> op.key,
                              prev |-> store[op.key], result |-> store[op.key]]))
             ELSE LET r == ApplyUpsert(store, TxnOpAsUpsert(op))
                  IN  ApplyTxnOps(r.store, Tail(ops),
                          Append(responses,
                                 [kind |-> op.kind, key |-> op.key,
                                  prev |-> r.prev, result |-> r.result]))

TxnConditionsHold(store, txn) ==
    \A i \in 1..Len(txn.condition) :
        MatchSeq(txn.condition[i].expected, store[txn.condition[i].key])

ApplyTxn(store, txn) ==
    LET success == TxnConditionsHold(store, txn)
        r == ApplyTxnOps(store,
                         IF success THEN txn.if_then ELSE txn.else_then, << >>)
    IN  [store |-> r.store, success |-> success, responses |-> r.responses]

\* applying a log entry: the new store and the tagged AppliedState
ApplyEntry(store, ent) ==
    IF ent.cmd.kind = "UpsertKV"
    THEN LET r == ApplyUpsert(store, ent.cmd)
         IN  [store |-> r.store,
              state |-> [tag |-> "KV",
                         x |-> [prev |-> r.prev, result |-> r.result]]]
    ELSE LET r == ApplyTxn(store, ent.cmd.txn)
         IN  [store |-> r.store,
              state |-> [tag |-> "TxnReply",
                         x |-> [success |-> r.success,
                                responses |-> r.responses]]]

\* the store after applying entries in order, starting from the empty store
RECURSIVE Replay(_)
Replay(entries) ==
    IF entries = << >> THEN EmptyStore
    ELSE ApplyEntry(Replay(SubSeq(entries, 1, Len(entries) - 1)),
                    entries[Len(entries)]).store

\* ---- reads of one store: get, multi-get, prefix-list --------------------
IsPrefix(p, k) == Len(p) <= Len(k) /\ SubSeq(k, 1, Len(p)) = p

ReadGet(store, k) == store[k]
ReadMGet(store, keys) == [i \in 1..Len(keys) |-> store[keys[i]]]
ReadList(store, prefix) ==
    {<<k, store[k]>> : k \in {x \in Keys : IsPrefix(prefix, x) /\ store[x] # None}}

(***************************************************************************)
(* A key decoder built from the helpers of key.rs: a variant with PREFIX   *)
(* and Arity segments (the prefix included).  An encoded key is held as    *)
(* the sequence of its segments, what s.split('/') yields.                 *)
(***************************************************************************)
MaxSegs == 4
PREFIX == "__fd_database"
Arity == 3
Segments == {PREFIX, "t1", ""}
Encoded == UNION {[1..n -> Segments] : n \in 1..MaxSegs}

KeyErr(e) == [kind |-> "Err", err |-> e]
InvalidSegment(i, expect, got) ==
    [tag |-> "InvalidSegment", i |-> i, expect |-> expect, got |-> got]
WrongNumberOfSegments(expect, got) ==
    [tag |-> "WrongNumberOfSegments", expect |-> expect, got |-> got]

\* elts.next() at the i-th call (i from 0)
NextElt(s, i) == IF i < Len(s) THEN Some(s[i + 1]) ELSE None

check_segment_absent(elt, i, encoded) ==
    IF elt # None THEN KeyErr(WrongNumberOfSegments(i, encoded))
    ELSE [kind |-> "Ok", val |-> None]

check_segment_present(elt, i, k) ==
    IF elt # None THEN [kind |-> "Ok", val |-> elt.v]
    ELSE KeyErr(WrongNumberOfSegments(i + 1, k))

check_segment(elt, i, expect) ==
    IF elt # expect THEN KeyErr(InvalidSegment(i, expect, elt))
    ELSE [kind |-> "Ok", val |-> None]

\* the checks of the segments from index i on, then the end of the key
RECURSIVE decode_rest(_, _, _)
decode_rest(s, i, fields) ==
    IF i = Arity
    THEN LET a == check_segment_absent(NextElt(s, i), i, s)
         IN  IF a.kind = "Err" THEN a ELSE [kind |-> "Ok", val |-> fields]
    ELSE LET p == check_segment_present(NextElt(s, i), i, s)
         IN  IF p.kind = "Err" THEN p
             ELSE decode_rest(s, i + 1, Append(fields, p.val))

\* from_str_key of the variant: the prefix first, then the other segments
decode_key(s) ==
    LET p == check_segment_present(NextElt(s, 0), 0, s)
    IN  IF p.kind = "Err" THEN p
        ELSE LET c == check_segment(p.val, 0, PREFIX)
             IN  IF c.kind = "Err" THEN c ELSE decode_rest(s, 1, << >>)

KeyInit ==
    /\ segs \in Encoded
    /\ decoded = None
    /\ EscOff
    /\ KVOff
    /\ CompactOff
    /\ IterOff

Decode ==
    /\ decoded = None
    /\ decoded' = decode_key(segs)
    /\ UNCHANGED <<segs, evars, kvvars, cvars, ivars>>

KeyNext == Decode

SpecKey == KeyInit /\ [][KeyNext]_vars

(***************************************************************************)
(* The node's operations                                                   *)
(***************************************************************************)
LogEntry(cmd) == [txid |-> None, time_ms |-> None, cmd |-> cmd]

Idle ==
    [pc |-> "idle", op |-> "", req |-> None, ent |-> None, idx |-> 0,
     state |-> None, abandoned |-> FALSE]

NoRet == [op |-> "", who |-> "", arg |-> None, kind |-> "None", reply |-> None]

Returned(op, who, arg, kind, reply) ==
    [op |-> op, who |-> who, arg |-> arg, kind |-> kind, reply |-> reply]

\* entries handed to the log and not yet committed
InFlight == Cardinality({c \in Callers : call[c].pc = "submitted"})

KVInit ==
    /\ log = << >>
    /\ applied = [n \in Nodes |-> 0]
    /\ sm = [n \in Nodes |-> EmptyStore]
    /\ call = [c \in Callers |-> Idle]
    /\ ret = NoRet
    /\ EscOff
    /\ KeyOff
    /\ CompactOff
    /\ IterOff

UpsertKvCallNoSeq(c, act) ==
    /\ call[c].pc = "idle"
    /\ call' = [call EXCEPT ![c] =
                   [pc |-> "submitted", op |-> "upsert_kv", req |-> act,
                    ent |-> LogEntry([kind |-> "UpsertKV",
                                      key |-> act.key,
                                      seq |-> SeqAny,
                                      value |-> act.value,
                                      value_meta |-> act.value_meta]),
                    idx |-> 0, state |-> None, abandoned |-> FALSE]]
    /\ ret' = NoRet
    /\ UNCHANGED <<log, applied, sm, nonkv>>

UpsertKvCallDirect(c, act) ==
    /\ call[c].pc = "idle"
    /\ sm' = [sm EXCEPT ![Leader] = ApplyUpsert(sm[Leader], act).store]
    /\ call' = [call EXCEPT ![c] =
                   [pc |-> "submitted", op |-> "upsert_kv", req |-> act,
                    ent |-> LogEntry([kind |-> "UpsertKV",
                                      key |-> act.key,
                                      seq |-> act.seq,
                                      value |-> act.value,
                                      value_meta |-> act.value_meta]),
                    idx |-> 0, state |-> None, abandoned |-> FALSE]]
    /\ ret' = NoRet
    /\ UNCHANGED <<log, applied, nonkv>>

UpsertKvCallNoMeta(c, act) ==
    /\ call[c].pc = "idle"
    /\ call' = [call EXCEPT ![c] =
                   [pc |-> "submitted", op |-> "upsert_kv", req |-> act,
                    ent |-> LogEntry([kind |-> "UpsertKV",
                                      key |-> act.key,
                                      seq |-> act.seq,
                                      value |-> act.value,
                                      value_meta |-> None]),
                    idx |-> 0, state |-> None, abandoned |-> FALSE]]
    /\ ret' = NoRet
    /\ UNCHANGED <<log, applied, sm, nonkv>>

\* upsert_kv up to self.write(ent): build the entry and submit it
UpsertKvCall(c, act) ==
    /\ call[c].pc = "idle"
    /\ call' = [call EXCEPT ![c] =
                   [pc |-> "submitted", op |-> "upsert_kv", req |-> act,
                    ent |-> LogEntry([kind |-> "UpsertKV",
                                      key |-> act.key,
                                      seq |-> act.seq,
                                      value |-> act.value,
                                      value_meta |-> act.value_meta]),
                    idx |-> 0, state |-> None, abandoned |-> FALSE]]
    /\ ret' = NoRet
    /\ UNCHANGED <<log, applied, sm, nonkv>>

TransactionCallNoCond(c, txn) ==
    /\ call[c].pc = "idle"
    /\ call' = [call EXCEPT ![c] =
                   [pc |-> "submitted", op |-> "transaction", req |-> txn,
                    ent |-> LogEntry([kind |-> "Transaction",
                                      txn |-> [txn EXCEPT !.condition = << >>]]),
                    idx |-> 0, state |-> None, abandoned |-> FALSE]]
    /\ ret' = NoRet
    /\ UNCHANGED <<log, applied, sm, nonkv>>

\* transaction up to self.write(ent)
TransactionCall(c, txn) ==
    /\ call[c].pc = "idle"
    /\ call' = [call EXCEPT ![c] =
                   [pc |-> "submitted", op |-> "transaction", req |-> txn,
                    ent |-> LogEntry([kind |-> "Transaction", txn |-> txn]),
                    idx |-> 0, state |-> None, abandoned |-> FALSE]]
    /\ ret' = NoRet
    /\ UNCHANGED <<log, applied, sm, nonkv>>

\* the log commits a submitted entry: it gets the next index
Commit(c) ==
    /\ call[c].pc = "submitted"
    /\ log' = Append(log, call[c].ent)
    /\ call' = [call EXCEPT ![c].pc = "committed", ![c].idx = Len(log) + 1]
    /\ ret' = NoRet
    /\ UNCHANGED <<applied, sm, nonkv>>

\* what write() hands over once the leader applied the entry of call cl:
\* the applied state to the waiting caller, nothing to one that went away
Deliver(cl, state) ==
    IF cl.abandoned THEN Idle
    ELSE [cl EXCEPT !.pc = "applied", !.state = state]

\* node n applies its next committed entry; the leader's applied state is
\* what write() hands to the caller that submitted the entry
Apply(n) ==
    /\ applied[n] < Len(log)
    /\ LET i == applied[n] + 1
           r == ApplyEntry(sm[n], log[i])
       IN  /\ sm' = [sm EXCEPT ![n] = r.store]
           /\ applied' = [applied EXCEPT ![n] = i]
           /\ call' = [c \in Callers |->
                          IF n = Leader /\ call[c].pc = "committed" /\ call[c].idx = i
                          THEN Deliver(call[c], r.state)
                          ELSE call[c]]
    /\ ret' = NoRet
    /\ UNCHANGED <<log, nonkv>>

UpsertKvReturnErrOnNoop(c) ==
    /\ call[c].pc = "applied"
    /\ call[c].op = "upsert_kv"
    /\ ret' = IF call[c].state.x.prev = call[c].state.x.result
              THEN Returned("upsert_kv", c, call[c].req, "Err", None)
              ELSE Returned("upsert_kv", c, call[c].req, "Ok", call[c].state.x)
    /\ call' = [call EXCEPT ![c] = Idle]
    /\ UNCHANGED <<log, applied, sm, nonkv>>

UpsertKvReturnEarly(c) ==
    /\ call[c].pc = "committed"
    /\ call[c].op = "upsert_kv"
    /\ ret' = Returned("upsert_kv", c, call[c].req, "Ok",
                       ApplyEntry(sm[Leader], call[c].ent).state.x)
    /\ call' = [call EXCEPT ![c] = Idle]
    /\ UNCHANGED <<log, applied, sm, nonkv>>

\* upsert_kv after self.write(ent).await? returned Ok(rst): the match on rst
UpsertKvReturn(c) ==
    /\ call[c].pc = "applied"
    /\ call[c].op = "upsert_kv"
    /\ ret' = IF call[c].state.tag = "KV"
              THEN Returned("upsert_kv", c, call[c].req, "Ok", call[c].state.x)
              ELSE Returned("upsert_kv", c, call[c].req, "Panic", None)
    /\ call' = [call EXCEPT ![c] = Idle]
    /\ UNCHANGED <<log, applied, sm, nonkv>>

TransactionReturnAnyTag(c) ==
    /\ call[c].pc = "applied"
    /\ call[c].op = "transaction"
    /\ ret' = Returned("transaction", c, call[c].req, "Ok", call[c].state.x)
    /\ call' = [call EXCEPT ![c] = Idle]
    /\ UNCHANGED <<log, applied, sm, nonkv>>

\* transaction after self.write(ent).await? returned Ok(rst)
TransactionReturn(c) ==
    /\ call[c].pc = "applied"
    /\ call[c].op = "transaction"
    /\ ret' = IF call[c].state.tag = "TxnReply"
              THEN Returned("transaction", c, call[c].req, "Ok", call[c].state.x)
              ELSE Returned("transaction", c, call[c].req, "Panic", None)
    /\ call' = [call EXCEPT ![c] = Idle]
    /\ UNCHANGED <<log, applied, sm, nonkv>>

\* the errors with which the log layer fails a submission
WriteErrors == {"ForwardToLeader", "Unavailable", "Timeout"}

\* the log refuses the submitted entry of caller c with error e
LogFail(c, e) ==
    /\ call[c].pc = "submitted"
    /\ ~call[c].abandoned
    /\ call' = [call EXCEPT ![c].pc = "failed",
                            ![c].state = [tag |-> "Err", x |-> e]]
    /\ ret' = NoRet
    /\ UNCHANGED <<log, applied, sm, nonkv>>

WriteErrorMasked(c) ==
    /\ call[c].pc = "failed"
    /\ ret' = Returned(call[c].op, c, call[c].req, "Err", "Internal")
    /\ call' = [call EXCEPT ![c] = Idle]
    /\ UNCHANGED <<log, applied, sm, nonkv>>

\* self.write(ent).await? returned Err(e): the `?` hands e to the caller
WriteError(c) ==
    /\ call[c].pc = "failed"
    /\ ret' = Returned(call[c].op, c, call[c].req, "Err", call[c].state.x)
    /\ call' = [call EXCEPT ![c] = Idle]
    /\ UNCHANGED <<log, applied, sm, nonkv>>

GetKvLogged(n, k) ==
    /\ ret' = Returned("get_kv", n, k, "Ok", ReadGet(sm[n], k))
    /\ log' = Append(log, LogEntry([kind |-> "UpsertKV", key |-> k,
                                    seq |-> SeqAbsent, value |-> Delete,
                                    value_meta |-> None]))
    /\ UNCHANGED <<applied, sm, call, nonkv>>

\* get_kv on node n
GetKv(n, k) ==
    /\ \/ ret' = Returned("get_kv", n, k, "Ok", ReadGet(sm[n], k))
       \/ ret' = Returned("get_kv", n, None, "Err", None)
    /\ UNCHANGED <<log, applied, sm, call, nonkv>>

MGetKvFirstOnly(n, keys) ==
    /\ \/ ret' = Returned("mget_kv", n, keys, "Ok",
                          ReadMGet(sm[n], SubSeq(keys, 1, 1)))
       \/ ret' = Returned("mget_kv", n, None, "Err", None)
    /\ UNCHANGED <<log, applied, sm, call, nonkv>>

\* mget_kv on node n
MGetKv(n, keys) ==
    /\ \/ ret' = Returned("mget_kv", n, keys, "Ok", ReadMGet(sm[n], keys))
       \/ ret' = Returned("mget_kv", n, None, "Err", None)
    /\ UNCHANGED <<log, applied, sm, call, nonkv>>

\* prefix_list_kv on node n
PrefixListKv(n, prefix) ==
    /\ \/ ret' = Returned("prefix_list_kv", n, prefix, "Ok", ReadList(sm[n], prefix))
       \/ ret' = Returned("prefix_list_kv", n, None, "Err", None)
    /\ UNCHANGED <<log, applied, sm, call, nonkv>>

\* the runs are cut off after `bound` submitted entries
CanSubmit(bound) == Len(log) + InFlight < bound

Next ==
    \/ \E c \in Callers, act \in ConcurrentUpsertReqs :
          CanSubmit(MaxLog) /\ UpsertKvCall(c, act)
    \/ \E c \in Callers, txn \in TxnReqs :
          CanSubmit(MaxLog) /\ TransactionCall(c, txn)
    \/ \E c \in Callers : Commit(c)
    \/ \E n \in Nodes : Apply(n)
    \/ \E c \in Callers : UpsertKvReturn(c)
    \/ \E c \in Callers : TransactionReturn(c)
    \/ \E n \in Nodes, k \in Keys : GetKv(n, k)
    \/ \E n \in Nodes, keys \in MGetReqs : MGetKv(n, keys)
    \/ \E n \in Nodes, prefix \in Prefixes : PrefixListKv(n, prefix)

Spec == KVInit /\ [][Next]_vars

\* one caller, one call at a time, served and read on the leader
SeqNext ==
    \/ \E act \in UpsertReqs : CanSubmit(MaxSeqLog) /\ UpsertKvCall("c1", act)
    \/ Commit("c1")
    \/ Apply(Leader)
    \/ UpsertKvReturn("c1")
    \/ \E k \in Keys : GetKv(Leader, k)

SpecSeq == KVInit /\ [][SeqNext]_vars

\* the applied state of the other kind, carrying the same payload
Mistag(state) ==
    [tag |-> IF state.tag = "KV" THEN "TxnReply" ELSE "KV", x |-> state.x]

\* a log layer that breaks its contract: the leader applies the entry and
\* write() hands back an applied state that is not of the command's kind
ApplyMistagged(n) ==
    /\ n = Leader
    /\ applied[n] < Len(log)
    /\ LET i == applied[n] + 1
           r == ApplyEntry(sm[n], log[i])
       IN  /\ \E c \in Callers : call[c].pc = "committed" /\ call[c].idx = i
           /\ sm' = [sm EXCEPT ![n] = r.store]
           /\ applied' = [applied EXCEPT ![n] = i]
           /\ call' = [c \in Callers |->
                          IF call[c].pc = "committed" /\ call[c].idx = i
                          THEN Deliver(call[c], Mistag(r.state))
                          ELSE call[c]]
    /\ ret' = NoRet
    /\ UNCHANGED <<log, nonkv>>

AbandonRetracts(c) ==
    /\ call[c].pc \in {"submitted", "committed"}
    /\ ~call[c].abandoned
    /\ call' = [call EXCEPT ![c] = Idle]
    /\ ret' = NoRet
    /\ UNCHANGED <<log, applied, sm, nonkv>>

\* the caller drops the future of upsert_kv / transaction while it awaits
\* write(): nobody waits for the result any more, the entry stays with the log
Abandon(c) ==
    /\ call[c].pc \in {"submitted", "committed"}
    /\ ~call[c].abandoned
    /\ call' = [call EXCEPT ![c].abandoned = TRUE]
    /\ ret' = NoRet
    /\ UNCHANGED <<log, applied, sm, nonkv>>

\* what each caller asks for in SpecLive: the two callers' entries differ
LiveReq(c) ==
    IF c = "c1" THEN UpsertKVReq(K1, SeqAbsent, Update("v1"), Some("ttl"))
    ELSE Txn1

\* two callers that may abandon their calls, over a log that refuses nothing
LiveNext ==
    \/ CanSubmit(MaxLiveLog) /\ UpsertKvCall("c1", LiveReq("c1"))
    \/ CanSubmit(MaxLiveLog) /\ TransactionCall("c2", LiveReq("c2"))
    \/ \E c \in Callers : Commit(c)
    \/ \E n \in Nodes : Apply(n)
    \/ \E c \in Callers : UpsertKvReturn(c)
    \/ \E c \in Callers : TransactionReturn(c)
    \/ \E c \in Callers : Abandon(c)

\* fair progress of the log: a submitted entry is committed, a committed entry
\* is applied on every node
LogFairness ==
    /\ \A c \in Callers : WF_vars(Commit(c))
    /\ \A n \in Nodes : WF_vars(Apply(n))

SpecLive == KVInit /\ [][LiveNext]_vars /\ LogFairness

\* one caller on the leader, under a log layer that may refuse a submission
\* or hand back an applied state of the wrong kind
FaultNext ==
    \/ \E act \in ConcurrentUpsertReqs :
          CanSubmit(MaxFaultLog) /\ UpsertKvCall("c1", act)
    \/ \E txn \in TxnReqs : CanSubmit(MaxFaultLog) /\ TransactionCall("c1", txn)
    \/ Commit("c1")
    \/ Apply(Leader)
    \/ ApplyMistagged(Leader)
    \/ UpsertKvReturn("c1")
    \/ TransactionReturn("c1")
    \/ \E e \in WriteErrors : LogFail("c1", e)
    \/ WriteError("c1")

SpecFault == KVInit /\ [][FaultNext]_vars

(***************************************************************************)
(* ChunkCompactorNoSplit of transform_chunk_compact_no_split.rs.  A chunk  *)
(* is its number of rows and its memory size; the caller appends each new  *)
(* chunk to its buffer and calls compact_partial, and calls compact_final  *)
(* at the end of the input; interrupt() may come at any time.              *)
(***************************************************************************)
MaxCalls == 4
MinRowsPerBlock == 3
MaxBytesPerBlock == 6

Chunk(r, b) == [rows |-> r, bytes |-> b]
NewChunks == {Chunk(0, 1), Chunk(1, 1), Chunk(2, 3), Chunk(3, 2), Chunk(1, 6)}

RECURSIVE SumRows(_)
SumRows(cs) == IF cs = << >> THEN 0 ELSE cs[1].rows + SumRows(Tail(cs))
RECURSIVE SumBytes(_)
SumBytes(cs) == IF cs = << >> THEN 0 ELSE cs[1].bytes + SumBytes(Tail(cs))

\* Chunk::concat: one chunk with all the rows
concat(cs) == Chunk(SumRows(cs), SumBytes(cs))

\* self.thresholds.check_large_enough(num_rows, num_bytes)
check_large_enough(num_rows, num_bytes) ==
    num_rows >= MinRowsPerBlock \/ num_bytes >= MaxBytesPerBlock

CompactOk(op, res) == [op |-> op, kind |-> "Ok", res |-> res]
AbortedQuery == [op |-> "compact_final", kind |-> "AbortedQuery", res |-> << >>]

compact_partial_keep(acc_rows, acc_bytes, cs) ==
    IF cs = << >>
    THEN [chunks |-> cs, accumulated_rows |-> acc_rows,
          accumulated_bytes |-> acc_bytes, res |-> << >>]
    ELSE
    LET size == Len(cs)
        chunk == cs[size]
        num_rows == chunk.rows
        num_bytes == chunk.bytes
    IN  IF check_large_enough(num_rows, num_bytes)
        THEN [chunks |-> cs,
              accumulated_rows |-> acc_rows, accumulated_bytes |-> acc_bytes,
              res |-> <<chunk>>]
        ELSE LET accumulated_rows_new == acc_rows + num_rows
                 accumulated_bytes_new == acc_bytes + num_bytes
             IN  IF check_large_enough(accumulated_rows_new, accumulated_bytes_new)
                 THEN [chunks |-> << >>,
                       accumulated_rows |-> 0, accumulated_bytes |-> 0,
                       res |-> <<concat(cs)>>]
                 ELSE [chunks |-> cs,
                       accumulated_rows |-> accumulated_rows_new,
                       accumulated_bytes |-> accumulated_bytes_new,
                       res |-> << >>]

\* compact_partial(&mut self, chunks): the buffer and the counters after the
\* call, and the chunks it returns
compact_partial(acc_rows, acc_bytes, cs) ==
    IF cs = << >>
    THEN [chunks |-> cs, accumulated_rows |-> acc_rows,
          accumulated_bytes |-> acc_bytes, res |-> << >>]
    ELSE
    LET size == Len(cs)
        chunk == cs[size]
        num_rows == chunk.rows
        num_bytes == chunk.bytes
    IN  IF check_large_enough(num_rows, num_bytes)
        THEN [chunks |-> SubSeq(cs, 1, size - 1),
              accumulated_rows |-> acc_rows, accumulated_bytes |-> acc_bytes,
              res |-> <<chunk>>]
        ELSE LET accumulated_rows_new == acc_rows + num_rows
                 accumulated_bytes_new == acc_bytes + num_bytes
             IN  IF check_large_enough(accumulated_rows_new, accumulated_bytes_new)
                 THEN [chunks |-> << >>,
                       accumulated_rows |-> 0, accumulated_bytes |-> 0,
                       res |-> <<concat(cs)>>]
                 ELSE [chunks |-> cs,
                       accumulated_rows |-> accumulated_rows_new,
                       accumulated_bytes |-> accumulated_bytes_new,
                       res |-> << >>]

compact_final_unchecked(acc_rows, abort, cs) ==
    IF acc_rows # 0 THEN CompactOk("compact_final", <<concat(cs)>>)
    ELSE CompactOk("compact_final", << >>)

\* compact_final(&self, chunks)
compact_final(acc_rows, abort, cs) ==
    IF acc_rows # 0
    THEN IF abort THEN AbortedQuery
         ELSE CompactOk("compact_final", <<concat(cs)>>)
    ELSE CompactOk("compact_final", << >>)

\* ChunkCompactorNoSplit::new, an empty buffer, nothing received
CompactInit ==
    /\ chunks = << >>
    /\ accumulated_rows = 0
    /\ accumulated_bytes = 0
    /\ aborting = FALSE
    /\ cres = [op |-> "new", kind |-> "Ok", res |-> << >>]
    /\ rows = [received |-> 0, emitted |-> 0, calls |-> 0]
    /\ EscOff
    /\ KVOff
    /\ KeyOff
    /\ IterOff

\* the caller appends the new chunk to its buffer and calls compact_partial
CompactPartial(chunk) ==
    /\ cres.op # "compact_final"
    /\ rows.calls < MaxCalls
    /\ LET r == compact_partial(accumulated_rows, accumulated_bytes,
                                Append(chunks, chunk))
       IN  /\ chunks' = r.chunks
           /\ accumulated_rows' = r.accumulated_rows
           /\ accumulated_bytes' = r.accumulated_bytes
           /\ cres' = CompactOk("compact_partial", r.res)
           /\ rows' = [received |-> rows.received + chunk.rows,
                       emitted |-> rows.emitted + SumRows(r.res),
                       calls |-> rows.calls + 1]
    /\ UNCHANGED <<aborting, evars, kvvars, dvars, ivars>>

\* the caller calls compact_final on its buffer at the end of the input
CompactFinal ==
    /\ cres.op # "compact_final"
    /\ cres' = compact_final(accumulated_rows, aborting, chunks)
    /\ rows' = [rows EXCEPT !.emitted = @ + SumRows(cres'.res)]
    /\ UNCHANGED <<chunks, accumulated_rows, accumulated_bytes, aborting,
                   evars, kvvars, dvars, ivars>>

\* interrupt(), from any thread
Interrupt ==
    /\ ~aborting
    /\ aborting' = TRUE
    /\ UNCHANGED <<chunks, accumulated_rows, accumulated_bytes, cres, rows,
                   evars, kvvars, dvars, ivars>>

CompactNext ==
    \/ \E chunk \in NewChunks : CompactPartial(chunk)
    \/ CompactFinal
    \/ Interrupt

SpecCompact == CompactInit /\ [][CompactNext]_vars

(***************************************************************************)
(* SerializedKeysIter of aggregator_keys_iter.rs: the iterator over the    *)
(* keys of a StringColumn.  The column is the bytes of its keys one after  *)
(* the other (self.data) and the n + 1 offsets at which they start and     *)
(* end; offsets and pos count from 0 as in the code.                       *)
(***************************************************************************)
MaxKeys == 3
MaxNext == 5

\* the keys of a column: byte strings of length 0, 1 or 2
KeyBytes == {<< >>, <<97>>, <<98, 99>>}
Columns == UNION {[1..n -> KeyBytes] : n \in 0..MaxKeys}

\* StringColumn::values: the keys one after the other
RECURSIVE ColumnValues(_)
ColumnValues(col) ==
    IF col = << >> THEN << >> ELSE col[1] \o ColumnValues(Tail(col))

\* StringColumn::offsets: 0, then the end of each key
RECURSIVE ColumnOffsets(_)
ColumnOffsets(col) ==
    IF col = << >> THEN <<0>>
    ELSE LET front == SubSeq(col, 1, Len(col) - 1)
         IN  Append(ColumnOffsets(front),
                    Len(ColumnValues(front)) + Len(col[Len(col)]))

\* &self.data[offset..offset_1]
Slice(d, offset, offset_1) == SubSeq(d, offset + 1, offset_1)

\* SerializedKeysIter::next: the item returned and self.pos after the call
next(d, offs, p) ==
    IF p < Len(offs) - 1
    THEN LET offset == offs[p + 1]
             offset_1 == offs[p + 2]
         IN  [item |-> Some(Slice(d, offset, offset_1)), pos |-> p]
    ELSE [item |-> None, pos |-> p]

\* SerializedKeysColumnIter::iter on a column
IterInit ==
    /\ \E col \in Columns :
          /\ values = ColumnValues(col)
          /\ offsets = ColumnOffsets(col)
    /\ pos = 0
    /\ yielded = << >>
    /\ EscOff
    /\ KVOff
    /\ KeyOff
    /\ CompactOff

\* one call of next
IterNextCall ==
    /\ Len(yielded) < MaxNext
    /\ LET r == next(values, offsets, pos)
       IN  /\ yielded' = Append(yielded, r.item)
           /\ pos' = r.pos
    /\ UNCHANGED <<values, offsets, evars, kvvars, dvars, cvars>>

IterNext == IterNextCall

SpecIter == IterInit /\ [][IterNext]_vars

(***************************************************************************)
(* Properties of the replicated node                                       *)
(***************************************************************************)
\* the leader applies caller c's entry in this step / c's call returns
AppliedStep(c) == call[c].pc = "committed" /\ call'[c].pc = "applied"
ReturnStep(c) == call[c].pc = "applied" /\ call'[c].pc = "idle"

\* an applied upsert_kv returns Ok with the (prev, result) of its own entry
ReturnsApplied(c) ==
    (ReturnStep(c) /\ call[c].op = "upsert_kv") =>
        ret' = Returned("upsert_kv", c, call[c].req, "Ok", call[c].state.x)

AbsentKeyStep(c) ==
    (/\ AppliedStep(c)
     /\ call[c].op = "upsert_kv"
     /\ sm[Leader][call[c].req.key] = None) =>
        LET act == call[c].req
            written == SeqV(1, act.value_meta, act.value.data)
        IN  /\ act.seq = SeqPresent =>
                /\ sm'[Leader] = sm[Leader]
                /\ call'[c].state =
                       [tag |-> "KV", x |-> [prev |-> None, result |-> None]]
            /\ (act.seq = SeqAbsent /\ act.value.kind = "Update") =>
                /\ call'[c].state =
                       [tag |-> "KV", x |-> [prev |-> None, result |-> written]]
                /\ ReadGet(sm'[Leader], act.key) = written

ExactSeqStep(c) ==
    (/\ AppliedStep(c)
     /\ call[c].op = "upsert_kv"
     /\ call[c].req.seq.kind = "Exact"
     /\ call[c].req.value.kind = "Update"
     /\ sm[Leader][call[c].req.key] # None) =>
        LET act == call[c].req
            cur == sm[Leader][act.key]
            new == SeqV(cur.seq + 1, act.value_meta, act.value.data)
        IN  IF cur.seq = act.seq.n
            THEN /\ sm'[Leader] = [sm[Leader] EXCEPT ![act.key] = new]
                 /\ call'[c].state =
                        [tag |-> "KV", x |-> [prev |-> cur, result |-> new]]
            ELSE /\ sm'[Leader] = sm[Leader]
                 /\ call'[c].state =
                        [tag |-> "KV", x |-> [prev |-> cur, result |-> cur]]

\* log entries i and j are upserts gated on the same seq of the same key
SameSeqGate(i, j) ==
    /\ log[i].cmd.kind = "UpsertKV"
    /\ log[j].cmd.kind = "UpsertKV"
    /\ log[i].cmd.seq.kind = "Exact"
    /\ log[j].cmd.seq = log[i].cmd.seq
    /\ log[j].cmd.key = log[i].cmd.key

\* the condition of upsert entry i holds when the entry is applied
GateHeldAt(i) ==
    MatchSeq(log[i].cmd.seq, Replay(SubSeq(log, 1, i - 1))[log[i].cmd.key])

AtMostOneApplied ==
    \A i, j \in 1..applied[Leader] :
        (i < j /\ SameSeqGate(i, j)) => ~(GateHeldAt(i) /\ GateHeldAt(j))

AtMostOneAppliedUnlessDeleted ==
    \A i, j \in 1..applied[Leader] :
        (i < j /\ SameSeqGate(i, j) /\ GateHeldAt(i) /\ GateHeldAt(j)) =>
            \E d \in (i + 1)..(j - 1) :
                Replay(SubSeq(log, 1, d))[log[i].cmd.key] = None

ThenPuts(txn) ==
    {txn.if_then[i] : i \in {j \in 1..Len(txn.if_then) : txn.if_then[j].kind = "put"}}

\* this step makes the value of put `op` appear in node n's state machine
NewlyVisible(n, op) ==
    /\ sm'[n][op.key] # sm[n][op.key]
    /\ sm'[n][op.key] # None
    /\ sm'[n][op.key].data = op.data

\* a transaction call hands exactly one entry, holding the request, to the log
OneEntryPerTxn(c) ==
    (call[c].pc = "submitted" /\ call[c].op = "transaction"
        /\ call'[c].pc = "committed") =>
            /\ Len(log') = Len(log) + 1
            /\ log'[Len(log')].cmd = [kind |-> "Transaction", txn |-> call[c].req]

\* C7: a transaction is one log entry, and on every node a step that makes one
\* put of its "then" branch visible makes all of them visible, and only when
\* the transaction's conditions hold in the state the entry is applied to.
\* (The values a transaction request puts are written by no other request.)
TxnAtomic ==
    [][/\ \A c \in Callers : OneEntryPerTxn(c)
       /\ \A n \in Nodes, txn \in TxnReqs :
            LET newly == {op \in ThenPuts(txn) : NewlyVisible(n, op)}
            IN  \/ newly = {}
                \/ /\ newly = ThenPuts(txn)
                   /\ TxnConditionsHold(sm[n], txn)]_vars

\* the leader shows both puts of Txn1 while the follower shows none yet, and a
\* second Txn1, whose condition failed, has been applied without effect
TxnAtomicWitness ==
    /\ Len(log) = 2
    /\ log[1].cmd = [kind |-> "Transaction", txn |-> Txn1]
    /\ log[2].cmd = [kind |-> "Transaction", txn |-> Txn1]
    /\ applied[Leader] = 2
    /\ sm[Leader][K1] = SeqV(1, None, "t1")
    /\ sm[Leader][K2] = SeqV(1, None, "t1")
    /\ sm["n2"] = EmptyStore

\* C8: writes are linearized in commit order: every node's state machine is
\* the result of applying, in order, the first applied[n] committed entries;
\* the log only grows at its end, and a node applies one next entry at a time.
Linearized ==
    /\ [](\A n \in Nodes :
            /\ applied[n] <= Len(log)
            /\ sm[n] = Replay(SubSeq(log, 1, applied[n])))
    /\ [][/\ Len(log') >= Len(log)
          /\ SubSeq(log', 1, Len(log)) = log
          /\ \A n \in Nodes : applied'[n] \in {applied[n], applied[n] + 1}]_vars

\* two concurrent writes: c2's committed before c1's, the leader has applied
\* both and the follower only the first
LinearizedWitness ==
    /\ call["c1"].idx = 2 /\ call["c1"].pc = "applied"
    /\ call["c2"].idx = 1 /\ call["c2"].pc = "applied"
    /\ call["c1"].req = UpsertKVReq(K1, SeqAbsent, Update("v1"), Some("ttl"))
    /\ call["c2"].req = Txn1
    /\ applied = [n \in Nodes |-> IF n = Leader THEN 2 ELSE 1]
    /\ sm[Leader] = sm["n2"]

ReadOps == {"get_kv", "mget_kv", "prefix_list_kv"}

ReadOf(op, store, arg) ==
    CASE op = "get_kv" -> ReadGet(store, arg)
      [] op = "mget_kv" -> ReadMGet(store, arg)
      [] op = "prefix_list_kv" -> ReadList(store, arg)

\* C9: a read that returns Ok returns what the read gives on the state after
\* some prefix of the committed log (one prefix for the whole reply).
ReadsFromPrefix ==
    (ret.op \in ReadOps /\ ret.kind = "Ok") =>
        \E i \in 0..Len(log) :
            ret.reply = ReadOf(ret.op, Replay(SubSeq(log, 1, i)), ret.arg)

\* a stale multi-get: the write was acknowledged (its caller is idle again),
\* the leader has it, and the follower's reply does not show it
ReadsFromPrefixWitness ==
    /\ Len(log) = 1
    /\ \A c \in Callers : call[c].pc = "idle"
    /\ sm[Leader][K1] = SeqV(1, None, "t1")
    /\ applied["n2"] = 0
    /\ ret = Returned("mget_kv", "n2", <<K2, K2, K1>>, "Ok", <<None, None, None>>)

\* C10: a read leaves the log, every state machine and every call untouched
\* (it submits nothing); the log changes only by committing the entry of an
\* upsert_kv or transaction call.
ReadsPure ==
    [][/\ ret'.op \in ReadOps => UNCHANGED <<log, applied, sm, call>>
       /\ log' # log =>
            \E c \in Callers :
                /\ call[c].pc = "submitted"
                /\ call[c].op \in {"upsert_kv", "transaction"}
                /\ log' = Append(log, call[c].ent)]_vars

\* a prefix-list on the leader has returned both keys of the applied Txn1
ReadsPureWitness ==
    /\ Len(log) >= 1
    /\ ret = Returned("prefix_list_kv", Leader, <<"k">>, "Ok",
                      {<<K1, SeqV(1, None, "t1")>>, <<K2, SeqV(1, None, "t1")>>})

WriteOps == {"upsert_kv", "transaction"}

\* the applied state of the entry at index i of the log
AppliedStateAt(i) == ApplyEntry(Replay(SubSeq(log, 1, i - 1)), log[i]).state

\* C11: whenever upsert_kv or transaction returns Ok(reply) to caller c, the
\* entry that call built is in the committed log at the index the call got, the
\* leader has applied it, and reply is the applied state of that entry.
AckAfterApplied ==
    [][\A c \in Callers :
          (ret'.op \in WriteOps /\ ret'.who = c /\ ret'.kind = "Ok") =>
              /\ call[c].idx \in 1..applied[Leader]
              /\ log[call[c].idx] = call[c].ent
              /\ call[c].ent.cmd.kind =
                     (IF ret'.op = "upsert_kv" THEN "UpsertKV" ELSE "Transaction")
              /\ ret'.reply = AppliedStateAt(call[c].idx).x]_vars

\* c1's write on top of c2's has returned its own (prev, result) while c2's
\* applied call has not returned yet
AckAfterAppliedWitness ==
    /\ ret.op = "upsert_kv" /\ ret.who = "c1" /\ ret.kind = "Ok"
    /\ call["c2"].pc = "applied"
    /\ call["c2"].idx = 1
    /\ ret.reply.prev # None
    /\ ret.reply.result # ret.reply.prev

\* the applied-state tag a handler matches, and the one a command's apply gives
TagOfOp(op) == IF op = "upsert_kv" THEN "KV" ELSE "TxnReply"
TagOfCmd(cmd) == IF cmd.kind = "UpsertKV" THEN "KV" ELSE "TxnReply"

\* C12: when write() hands an applied state back, upsert_kv returns Ok (with
\* its payload) exactly when it is tagged KV and transaction exactly when it is
\* tagged TxnReply; for any other tag the call panics, with no reply and no
\* error value; and a call whose entry was applied with the result kind of its
\* command never panics.
TagMatch ==
    [][\A c \in Callers :
          ReturnStep(c) =>
              /\ ret'.op = call[c].op /\ ret'.who = c
              /\ ret'.kind \in {"Ok", "Panic"}
              /\ call[c].state.tag = TagOfOp(call[c].op) =>
                     ret' = Returned(call[c].op, c, call[c].req, "Ok",
                                     call[c].state.x)
              /\ call[c].state.tag # TagOfOp(call[c].op) =>
                     ret' = Returned(call[c].op, c, call[c].req, "Panic", None)
              /\ call[c].state.tag = TagOfCmd(call[c].ent.cmd) =>
                     ret'.kind = "Ok"]_vars

\* a transaction whose applied entry came back tagged KV has panicked, after
\* an upsert_kv that returned Ok
TagMatchWitness ==
    /\ ret = Returned("transaction", "c1", Txn1, "Panic", None)
    /\ Len(log) = 2
    /\ applied[Leader] = 2
    /\ log[1].cmd.kind = "UpsertKV"
    /\ log[2].cmd.kind = "Transaction"

\* C13: when the log layer fails the submission of caller c with error e, the
\* call returns Err(e), that very error, with no reply value; the node does not
\* submit the entry again (the call is over and the log is as it was); and a
\* write returns Err only this way: a call whose entry was applied, condition
\* met or not, does not return an error.
ErrorsPropagate ==
    [][\A c \in Callers :
          /\ (call[c].pc = "submitted" /\ call'[c].pc = "failed") =>
                 /\ call'[c].state.x \in WriteErrors
                 /\ UNCHANGED <<log, applied, sm>>
          /\ (call[c].pc = "failed" /\ call'[c] # call[c]) =>
                 /\ ret' = Returned(call[c].op, c, call[c].req, "Err",
                                    call[c].state.x)
                 /\ call'[c] = Idle
                 /\ UNCHANGED <<log, applied, sm>>
          /\ (ret'.op \in WriteOps /\ ret'.who = c /\ ret'.kind = "Err") =>
                 /\ call[c].pc = "failed"
                 /\ ret'.reply \in WriteErrors
          /\ ReturnStep(c) => ret'.kind # "Err"]_vars

\* after one applied write, a second upsert_kv was refused with Timeout and
\* returned it; the log still holds the first entry only
ErrorsPropagateWitness ==
    /\ ret = Returned("upsert_kv", "c1",
                      UpsertKVReq(K1, SeqExact(1), Update("v2"), None),
                      "Err", "Timeout")
    /\ Len(log) = 1
    /\ applied[Leader] = 1
    /\ call["c1"] = Idle

\* the leader's store after the first i entries of the log
StoreAt(i) == Replay(SubSeq(log, 1, i))

\* steps of the stores: a key's stored value changes only when the node applies
\* an entry; a successful update of a present key raises its seq; a conditional
\* write whose condition does not hold, and every read, change no store
SeqSteps ==
    /\ \A n \in Nodes :
          sm'[n] # sm[n] =>
              /\ applied[n] < Len(log)
              /\ applied'[n] = applied[n] + 1
              /\ sm'[n] = ApplyEntry(sm[n], log[applied[n] + 1]).store
    /\ \A n \in Nodes, k \in Keys :
          (sm[n][k] # None /\ sm'[n][k] # None /\ sm'[n][k] # sm[n][k]) =>
              sm'[n][k].seq > sm[n][k].seq
    /\ \A n \in Nodes :
          (/\ applied'[n] = applied[n] + 1
           /\ log[applied'[n]].cmd.kind = "UpsertKV"
           /\ ~MatchSeq(log[applied'[n]].cmd.seq,
                        sm[n][log[applied'[n]].cmd.key])) => sm'[n] = sm[n]
    /\ ret'.op \in ReadOps => sm' = sm

\* over the applied writes, a key's seq never goes down
SeqNeverDecreases ==
    LET at == [i \in 0..applied[Leader] |-> StoreAt(i)]
    IN  \A k \in Keys, i, j \in 0..applied[Leader] :
            (i < j /\ at[i][k] # None /\ at[j][k] # None) =>
                at[j][k].seq >= at[i][k].seq

\* the same, between two points with no delete of the key in between
SeqNeverDecreasesWhilePresent ==
    LET at == [i \in 0..applied[Leader] |-> StoreAt(i)]
    IN  \A k \in Keys, i, j \in 0..applied[Leader] :
            (i < j /\ \A m \in i..j : at[m][k] # None) =>
                at[j][k].seq >= at[i][k].seq

SubmittedAt(c, l) == call[c].pc = "submitted" /\ Len(log) = l

AppliedBehind(c, l) ==
    \E i \in (l + 1)..Len(log) :
        /\ log[i] = LogEntry(IF c = "c1"
                             THEN [kind |-> "UpsertKV",
                                   key |-> LiveReq(c).key,
                                   seq |-> LiveReq(c).seq,
                                   value |-> LiveReq(c).value,
                                   value_meta |-> LiveReq(c).value_meta]
                             ELSE [kind |-> "Transaction", txn |-> LiveReq(c)])
        /\ \A n \in Nodes : applied[n] >= i

\* abandoning a call changes nothing but the caller's interest
AbandonStep(c) ==
    (call'[c].abandoned /\ ~call[c].abandoned) =>
        /\ call'[c] = [call[c] EXCEPT !.abandoned = TRUE]
        /\ UNCHANGED <<log, applied, sm>>

\* C15: under fair progress of the log, an entry submitted by upsert_kv or
\* transaction is eventually committed and applied on every node, whether or
\* not the caller abandons the call; abandoning changes neither the log nor a
\* store; and every store is the replay of the log prefix its node applied,
\* abandoned calls' entries included.
NoRetract ==
    /\ \A c \in Callers, l \in 0..MaxLiveLog :
          SubmittedAt(c, l) ~> AppliedBehind(c, l)
    /\ [][\A c \in Callers : AbandonStep(c)]_vars
    /\ [](\A n \in Nodes : sm[n] = Replay(SubSeq(log, 1, applied[n])))

\* c1 abandoned its call; its entry is committed behind c2's and the follower
\* has applied both
NoRetractWitness ==
    /\ call["c1"].abandoned
    /\ call["c1"].pc = "committed"
    /\ call["c1"].idx = 2
    /\ applied["n2"] = 2
    /\ sm["n2"][K2] = SeqV(1, None, "t1")

\* C16: decoding a key whose first segment is not PREFIX fails with
\* InvalidSegment citing index 0, PREFIX and the segment found; decoding a key
\* with the right prefix and too few or too many segments fails with
\* WrongNumberOfSegments whose expect is the variant's segment count.
NegativeDecode ==
    decoded # None =>
        /\ segs[1] # PREFIX =>
               decoded = KeyErr(InvalidSegment(0, PREFIX, segs[1]))
        /\ (segs[1] = PREFIX /\ Len(segs) # Arity) =>
               decoded = KeyErr(WrongNumberOfSegments(Arity, segs))

\* C17: for the String key PREFIX is empty, to_string_key returns the string
\* as it is (not escaped), from_str_key returns Ok of its input for every
\* input, and both round trips give back what they started from.
StringKeyIdentity ==
    /\ StringPREFIX = << >>
    /\ epc = "encoded" => skey = [kind |-> "Str", val |-> key]
    /\ epc = "key_roundtrip" => skey = [kind |-> "Ok", val |-> key]
    /\ epc = "decoded" => skey = [kind |-> "Ok", val |-> key]
    /\ epc = "str_roundtrip" => skey = [kind |-> "Str", val |-> key]

\* "my db!", which escape would change, has gone through to_string_key and
\* from_str_key unchanged
StringKeyIdentityWitness ==
    /\ epc = "key_roundtrip"
    /\ key = <<109, 121, 32, 100, 98, 33>>
    /\ escape(key).val # key
    /\ skey = [kind |-> "Ok", val |-> key]

\* the entry a call submits: no transaction id, no timestamp, and a command
\* that carries the request field by field
EntryOfRequest(cl) ==
    /\ cl.ent.txid = None
    /\ cl.ent.time_ms = None
    /\ cl.op = "upsert_kv" =>
          cl.ent.cmd = [kind |-> "UpsertKV",
                        key |-> cl.req.key,
                        seq |-> cl.req.seq,
                        value |-> cl.req.value,
                        value_meta |-> cl.req.value_meta]
    /\ cl.op = "transaction" =>
          cl.ent.cmd = [kind |-> "Transaction", txn |-> cl.req]

\* C18: a call of upsert_kv or transaction submits one entry, built from its
\* request with txid None and time_ms None; that entry, unchanged, is what the
\* log commits, once; and the log grows by nothing else.
SubmitsOneEntry ==
    [][/\ \A c \in Callers :
             /\ (call[c].pc = "idle" /\ call'[c].pc # "idle") =>
                    /\ call'[c].pc = "submitted"
                    /\ call'[c].op \in WriteOps
                    /\ EntryOfRequest(call'[c])
                    /\ log' = log
             /\ (call[c].pc = "submitted" /\ call'[c].pc # "submitted") =>
                    /\ call'[c].pc = "committed"
                    /\ call'[c].ent = call[c].ent
                    /\ call'[c].req = call[c].req
                    /\ log' = Append(log, call[c].ent)
             /\ call[c].pc \in {"committed", "applied"} =>
                    /\ call'[c].pc \in {"committed", "applied", "idle"}
                    /\ call'[c].pc # "idle" => call'[c].ent = call[c].ent
             /\ ReturnStep(c) =>
                    Cardinality({i \in 1..Len(log) :
                                    i = call[c].idx /\ log[i] = call[c].ent}) = 1
       /\ log' # log =>
             Cardinality({c \in Callers : call[c].pc = "submitted"
                                          /\ call'[c].pc = "committed"}) = 1]_vars

\* c1's upsert with value metadata is committed as the entry the call built,
\* while c2's transaction is submitted and not yet in the log
SubmitsOneEntryWitness ==
    /\ call["c1"].pc = "committed"
    /\ call["c1"].req = UpsertKVReq(K1, SeqAbsent, Update("v1"), Some("ttl"))
    /\ call["c1"].idx = 1
    /\ log = <<LogEntry([kind |-> "UpsertKV", key |-> K1, seq |-> SeqAbsent,
                         value |-> Update("v1"), value_meta |-> Some("ttl")])>>
    /\ call["c2"].pc = "submitted"
    /\ call["c2"].ent = LogEntry([kind |-> "Transaction", txn |-> Txn1])

FinalStep == cres.op # "compact_final" /\ cres'.op = "compact_final"
PartialStep == rows'.calls = rows.calls + 1

\* C20: a compact_final called after interrupt() returns AbortedQuery and
\* emits nothing when accumulated_rows is not zero; when accumulated_rows is
\* zero it returns the empty result, interrupted or not; without an interrupt
\* it returns the buffer as one chunk; and compact_partial returns Ok, and the
\* same chunks, whether interrupted or not.
CompactorAbort ==
    [][/\ FinalStep =>
            /\ (aborting /\ accumulated_rows # 0) =>
                   /\ cres' = AbortedQuery
                   /\ rows'.emitted = rows.emitted
            /\ accumulated_rows = 0 => cres' = CompactOk("compact_final", << >>)
            /\ (~aborting /\ accumulated_rows # 0) =>
                   cres' = CompactOk("compact_final", <<concat(chunks)>>)
       /\ PartialStep =>
            /\ cres'.op = "compact_partial"
            /\ cres'.kind = "Ok"
            /\ aborting' = aborting
            /\ rows'.emitted = rows.emitted + SumRows(cres'.res)
       /\ aborting => aborting']_vars

\* interrupted with one small chunk in the buffer: compact_final has returned
\* AbortedQuery, after a compact_partial that ran interrupted
CompactorAbortWitness ==
    /\ cres = AbortedQuery
    /\ aborting
    /\ accumulated_rows = 1
    /\ chunks = <<Chunk(1, 1)>>
    /\ rows = [received |-> 4, emitted |-> 3, calls |-> 2]

\* C21: for a column of n keys the calls of next return the n keys, the i-th
\* call the i-th key data[offsets[i-1]..offsets[i]], each once and in order,
\* and every call after the n-th returns None.
KeysIterYieldsEach ==
    LET n == Len(offsets) - 1
    IN  \A i \in 1..Len(yielded) :
            yielded[i] = IF i <= n
                         THEN Some(Slice(values, offsets[i], offsets[i + 1]))
                         ELSE None

====
